---- MODULE Spec2Model ----
(***************************************************************************)
(* Model of the KML geometry extractor of plantation_mapper                *)
(* (src/kml_parser.py).                                                    *)
(*                                                                         *)
(* Strings are sequences of one-character strings, so that strip, split    *)
(* and float are computed character by character as Python computes them.  *)
(* An optional value (Python's None or a value v) is the sequence <<>> or  *)
(* <<v>>.  A float is the record [m |-> mantissa, e |-> decimals] standing *)
(* for m / 10^e, normalised so that equal numbers are equal records.       *)
(***************************************************************************)
EXTENDS Integers, Sequences, FiniteSets, TLC

VARIABLES
    text,       \* argument of a parse_coordinates_text call (optional string)
    coords,     \* its return value
    cpc,        \* position of that call: "ready" | "done"
    kml_text,   \* argument of an extract_placemarks call
    result,     \* its return value: the list of placemark records
    pc,         \* position of that call: "ready" | "done" | "raised"
    exc,        \* the class of the exception that call raised, None if none
    path,       \* the file name given to a reader
    file,       \* what is stored under that name
    kml_read,   \* outcome of the read_kml_from_path call of main
    mpc,        \* position of main: "idle" | "read" | "extract" | "return"
    exit_code,  \* what main returned, None before
    processed,  \* outcome of a process_kml call on that file
    ppc,        \* position of that call: "idle" | "ready" | "done"
    calls,      \* the locals of each running extract_placemarks invocation
    data_file,  \* the data file plantations.geojson
    session_plantations,  \* st.session_state.session_plantations
    messages    \* what the last run of the upload page displayed

extractVars == <<kml_text, result, pc, exc>>
readVars == <<path, file, kml_read, mpc, exit_code, processed, ppc>>

callVars == <<calls>>
uploadVars == <<data_file, session_plantations, messages>>

vars == <<text, coords, cpc, kml_text, result, pc, exc,
          path, file, kml_read, mpc, exit_code, processed, ppc,
          calls, data_file, session_plantations, messages>>

-----------------------------------------------------------------------------
(* Bounds of the inputs                                                    *)

MaxFields == 5      \* components of a coordinates text, over all its tokens
MaxCoords == 3      \* coordinate tokens of the text of a line or a ring

-----------------------------------------------------------------------------
(* Python values                                                           *)

None == <<>>
Some(v) == <<v>>

Whitespace == {" ", "\n", "\t"}
Digits == {"0", "1", "2", "3", "4", "5", "6", "7", "8", "9"}

DigitValue(c) ==
    CASE c = "0" -> 0 [] c = "1" -> 1 [] c = "2" -> 2 [] c = "3" -> 3
      [] c = "4" -> 4 [] c = "5" -> 5 [] c = "6" -> 6 [] c = "7" -> 7
      [] c = "8" -> 8 [] c = "9" -> 9

RECURSIVE LStrip(_)
LStrip(s) ==
    IF s # <<>> /\ Head(s) \in Whitespace THEN LStrip(Tail(s)) ELSE s

RECURSIVE RStrip(_)
RStrip(s) ==
    IF s # <<>> /\ s[Len(s)] \in Whitespace
    THEN RStrip(SubSeq(s, 1, Len(s) - 1))
    ELSE s

\* str.strip()
Strip(s) == RStrip(LStrip(s))

\* str.replace(old, new) for one-character old and new
Replace(s, old, new) == [i \in 1..Len(s) |-> IF s[i] = old THEN new ELSE s[i]]

\* the longest prefix of s without a character of seps
RECURSIVE TakeUntil(_, _)
TakeUntil(s, seps) ==
    IF s = <<>> \/ Head(s) \in seps THEN <<>>
    ELSE <<Head(s)>> \o TakeUntil(Tail(s), seps)

\* str.split(): split on runs of whitespace, no empty strings in the result
RECURSIVE SplitWhitespace(_)
SplitWhitespace(s) ==
    LET t == LStrip(s) IN
    IF t = <<>> THEN <<>>
    ELSE LET w == TakeUntil(t, Whitespace) IN
         <<w>> \o SplitWhitespace(SubSeq(t, Len(w) + 1, Len(t)))

\* str.split(','): split on every comma, empty strings kept
RECURSIVE SplitComma(_)
SplitComma(s) ==
    LET w == TakeUntil(s, {","}) IN
    IF Len(w) = Len(s) THEN <<w>>
    ELSE <<w>> \o SplitComma(SubSeq(s, Len(w) + 2, Len(s)))

\* float(s) raises ValueError unless s is [sign] digits [. digits] with at
\* least one digit (the inputs have no exponent, underscore, inf or nan)
Unsigned(s) == IF s # <<>> /\ Head(s) \in {"+", "-"} THEN Tail(s) ELSE s

IsFloat(s) ==
    LET u == Unsigned(s) IN
    /\ \A i \in 1..Len(u) : u[i] \in Digits \cup {"."}
    /\ Cardinality({i \in 1..Len(u) : u[i] = "."}) <= 1
    /\ \E i \in 1..Len(u) : u[i] \in Digits

RECURSIVE DigitsValue(_)
DigitsValue(s) ==
    IF s = <<>> THEN 0
    ELSE 10 * DigitsValue(SubSeq(s, 1, Len(s) - 1)) + DigitValue(s[Len(s)])

RECURSIVE Normalize(_, _)
Normalize(m, e) ==
    IF e > 0 /\ m % 10 = 0 THEN Normalize(m \div 10, e - 1)
    ELSE [m |-> m, e |-> e]

\* the value of float(s) when IsFloat(s)
Float(s) ==
    LET u == Unsigned(s)
        int == TakeUntil(u, {"."})
        frac == IF Len(int) = Len(u) THEN <<>>
                ELSE SubSeq(u, Len(int) + 2, Len(u))
        mag == DigitsValue(int \o frac)
    IN  Normalize(IF s # <<>> /\ Head(s) = "-" THEN 0 - mag ELSE mag, Len(frac))

-----------------------------------------------------------------------------
(* parse_coordinates_text                                                  *)

\* the body of the loop over the tokens: the coordinates one token adds
ParseToken(p) ==
    LET comps == SplitComma(p) IN
    IF Len(comps) >= 2
    THEN IF /\ IsFloat(comps[1])
            /\ IsFloat(comps[2])
            /\ (Len(comps) >= 3 /\ comps[3] # <<>>) => IsFloat(comps[3])
         THEN << <<Float(comps[1]),
                   Float(comps[2]),
                   IF Len(comps) >= 3 /\ comps[3] # <<>>
                   THEN Some(Float(comps[3])) ELSE None>> >>
         ELSE <<>>       \* except ValueError: continue
    ELSE <<>>

\* the loop left at the first malformed token (break for continue)
RECURSIVE ParsePartsBreak(_)
ParsePartsBreak(parts) ==
    IF parts = <<>> \/ ParseToken(Head(parts)) = <<>> THEN <<>>
    ELSE ParseToken(Head(parts)) \o ParsePartsBreak(Tail(parts))

RECURSIVE ParseParts(_)
ParseParts(parts) ==
    IF parts = <<>> THEN <<>>
    ELSE ParseToken(Head(parts)) \o ParseParts(Tail(parts))

parse_coordinates_text(t) ==
    IF t = None THEN <<>>
    ELSE LET s == Strip(t[1]) IN
         IF s = <<>> THEN <<>>
         ELSE ParseParts(SplitWhitespace(Replace(s, "\n", " ")))

-----------------------------------------------------------------------------
(* Inputs of parse_coordinates_text                                        *)

Numbers == { <<"7", "7", ".", "5">>, <<"-", "1", "0">> }

Components == { <<>>, <<"b", "a", "d">> } \cup Numbers

\* what stands between two components: the comma of a token, or the
\* whitespace between two tokens
Delimiters == { <<",">>, <<"\n", "\t">> }

\* the components f[1], ..., f[n] with d[i] between f[i] and f[i + 1]
RECURSIVE Delimited(_, _, _)
Delimited(f, d, n) ==
    IF n = 1 THEN f[1] ELSE Delimited(f, d, n - 1) \o d[n - 1] \o f[n]

\* a text with whitespace around it
Padded(s) == <<" ">> \o s \o <<"\n">>

\* tokens of numbers: with an altitude, without, with an empty third
\* component, with an empty second component
CoordinateTokens ==
    { <<"7", "7", ".", "5", ",", "1", "2", ".", "9", ",", "1", "0">>,
      <<"7", "7", ".", "5", ",", "1", "2", ".", "9">>,
      <<"-", "1", "0", ",", "7", "7", ".", "5", ",">>,
      <<"1", "2", ".", "9", ",", ",", "-", "1", "0">>,
      <<"-", "1", "0", ",", "1", "2", ".", "9", ",", "7", "7", ".", "5">> }

\* the tokens f[1], ..., f[n] written one after the other, sep before each
RECURSIVE Joined(_, _, _)
Joined(f, n, sep) ==
    IF n = 0 THEN <<>> ELSE Joined(f, n - 1, sep) \o sep \o f[n]

-----------------------------------------------------------------------------
(* ElementTree: an element is [tag, text, children]; tag is the qualified  *)
(* name as ElementTree writes it, "{uri}local" or "local", cut in pieces   *)
(* <<"{", uri, "}", local>> or <<local>>; text is the optional text before *)
(* the first child (None when there is none, never the empty string).      *)

El(tag, txt, children) == [tag |-> tag, text |-> txt, children |-> children]

\* the walk of Element.findall('*'): the element and its children only
IterChildren(el) == <<el>> \o el.children

\* Element.iter(): the element and its descendants in document order
RECURSIVE Iter(_)
RECURSIVE IterAll(_)
Iter(el) == <<el>> \o IterAll(el.children)
IterAll(els) ==
    IF els = <<>> THEN <<>> ELSE Iter(Head(els)) \o IterAll(Tail(els))

\* tag.split('}', 1)[-1] if '}' in tag else tag
\* the qualified name compared as it is
strip_namespaceKept(tag) == tag

strip_namespace(tag) ==
    IF \E i \in 1..Len(tag) : tag[i] = "}"
    THEN LET first == TakeUntil(tag, {"}"}) IN
         SubSeq(tag, Len(first) + 2, Len(tag))
    ELSE tag

\* the search of Element.findall: the children of the root only
findall_localChildren(root, local_name) ==
    SelectSeq(root.children, LAMBDA el : strip_namespace(el.tag) = <<local_name>>)

findall_local(root, local_name) ==
    SelectSeq(Iter(root), LAMBDA el : strip_namespace(el.tag) = <<local_name>>)

RECURSIVE FirstLocalIn(_, _)
FirstLocalIn(els, local_name) ==
    IF els = <<>> THEN None
    ELSE IF strip_namespace(Head(els).tag) = <<local_name>>
         THEN Some(Head(els))
         ELSE FirstLocalIn(Tail(els), local_name)

find_first_local(root, local_name) == FirstLocalIn(Iter(root), local_name)

-----------------------------------------------------------------------------
(* geometry_from_placemark                                                 *)

\* (lon, lat) if alt is None else (lon, lat, alt)
Tuple(c) == IF c[3] = None THEN <<c[1], c[2]>> ELSE <<c[1], c[2], c[3][1]>>

\* the altitudes left out of the whole sequence when one coordinate has none
TuplesFlattened(cs) ==
    IF \E i \in 1..Len(cs) : cs[i][3] = None
    THEN [i \in 1..Len(cs) |-> <<cs[i][1], cs[i][2]>>]
    ELSE [i \in 1..Len(cs) |-> Tuple(cs[i])]

Tuples(cs) == [i \in 1..Len(cs) |-> Tuple(cs[i])]

\* coords_el = find_first_local(el, 'coordinates');
\* parse_coordinates_text(coords_el.text if coords_el is not None else None)
CoordsOf(el) ==
    LET coords_el == find_first_local(el, "coordinates") IN
    parse_coordinates_text(IF coords_el # None THEN coords_el[1].text ELSE None)

\* the last coordinate taken for the first
PointGeomsLast(point_el) ==
    LET cs == CoordsOf(point_el) IN
    IF cs # <<>>
    THEN << [type |-> "Point", coordinates |-> Tuple(cs[Len(cs)])] >>
    ELSE <<>>

PointGeoms(point_el) ==
    LET cs == CoordsOf(point_el) IN
    IF cs # <<>>
    THEN << [type |-> "Point", coordinates |-> Tuple(cs[1])] >>
    ELSE <<>>

LineStringGeoms(ls_el) ==
    LET cs == CoordsOf(ls_el) IN
    IF cs # <<>>
    THEN << [type |-> "LineString", coordinates |-> Tuples(cs)] >>
    ELSE <<>>

\* the coordinates of the first LinearRing of a boundary element, [] if none
BoundaryRing(boundary) ==
    LET lr == find_first_local(boundary, "LinearRing") IN
    IF lr # None THEN Tuples(CoordsOf(lr[1])) ELSE <<>>

\* outer_coords after the outerBoundaryIs step
ExplicitOuter(poly_el) ==
    LET outer_boundary == find_first_local(poly_el, "outerBoundaryIs") IN
    IF outer_boundary # None THEN BoundaryRing(outer_boundary[1]) ELSE <<>>

\* the holes appended for a sequence of ring coordinates: 'if coords'
HolesOf(rings) == SelectSeq(rings, LAMBDA r : r # <<>>)

\* holes after the innerBoundaryIs loop
ExplicitHoles(poly_el) ==
    LET inner == findall_local(poly_el, "innerBoundaryIs") IN
    HolesOf([i \in 1..Len(inner) |-> BoundaryRing(inner[i])])

RingCoords(lr) == Tuples(CoordsOf(lr))

\* the holes of the fallback, for lrs[1:]
FallbackHoles(lrs) ==
    HolesOf([i \in 1..(Len(lrs) - 1) |-> RingCoords(lrs[i + 1])])

\* a polygon emitted for its holes when it has no outer boundary
PolygonGeomsForHoles(poly_el) ==
    LET outer1 == ExplicitOuter(poly_el)
        holes1 == ExplicitHoles(poly_el)
        lrs == findall_local(poly_el, "LinearRing")
        fallback == outer1 = <<>> /\ lrs # <<>>
        outer_coords == IF fallback THEN RingCoords(lrs[1]) ELSE outer1
        holes == IF fallback
                 THEN holes1 \o FallbackHoles(lrs)
                 ELSE holes1
    IN  IF outer_coords # <<>> \/ holes # <<>>
        THEN << [type |-> "Polygon",
                 coordinates |-> [outer |-> outer_coords, holes |-> holes]] >>
        ELSE <<>>

\* the rings after the first scanned for holes whether or not the outer
\* boundary was found through outerBoundaryIs
PolygonGeomsAlwaysScans(poly_el) ==
    LET outer1 == ExplicitOuter(poly_el)
        holes1 == ExplicitHoles(poly_el)
        lrs == findall_local(poly_el, "LinearRing")
        fallback == outer1 = <<>> /\ lrs # <<>>
        outer_coords == IF fallback THEN RingCoords(lrs[1]) ELSE outer1
        holes == IF lrs # <<>>
                 THEN holes1 \o FallbackHoles(lrs)
                 ELSE holes1
    IN  IF outer_coords # <<>>
        THEN << [type |-> "Polygon",
                 coordinates |-> [outer |-> outer_coords, holes |-> holes]] >>
        ELSE <<>>

PolygonGeoms(poly_el) ==
    LET outer1 == ExplicitOuter(poly_el)
        holes1 == ExplicitHoles(poly_el)
        lrs == findall_local(poly_el, "LinearRing")
        fallback == outer1 = <<>> /\ lrs # <<>>
        outer_coords == IF fallback THEN RingCoords(lrs[1]) ELSE outer1
        holes == IF fallback
                 THEN holes1 \o FallbackHoles(lrs)
                 ELSE holes1
    IN  IF outer_coords # <<>>
        THEN << [type |-> "Polygon",
                 coordinates |-> [outer |-> outer_coords, holes |-> holes]] >>
        ELSE <<>>

RECURSIVE Concat(_)
Concat(seqs) ==
    IF seqs = <<>> THEN <<>> ELSE Head(seqs) \o Concat(Tail(seqs))

PointLoop(els) == Concat([i \in 1..Len(els) |-> PointGeoms(els[i])])

LineStringLoop(els) == Concat([i \in 1..Len(els) |-> LineStringGeoms(els[i])])

PolygonLoop(els) == Concat([i \in 1..Len(els) |-> PolygonGeoms(els[i])])

\* the loop over the lines put before the loop over the points
geometry_from_placemarkLinesFirst(placemark_el) ==
    LineStringLoop(findall_local(placemark_el, "LineString"))
    \o PointLoop(findall_local(placemark_el, "Point"))
    \o PolygonLoop(findall_local(placemark_el, "Polygon"))

geometry_from_placemark(placemark_el) ==
    PointLoop(findall_local(placemark_el, "Point"))
    \o LineStringLoop(findall_local(placemark_el, "LineString"))
    \o PolygonLoop(findall_local(placemark_el, "Polygon"))

-----------------------------------------------------------------------------
(* extract_placemarks                                                      *)

\* el.text.strip() if (el is not None and el.text) else None
FieldText(el) ==
    IF el # None /\ el[1].text # None /\ el[1].text[1] # <<>>
    THEN Some(Strip(el[1].text[1]))
    ELSE None

PlacemarkRecord(pm) ==
    [name |-> FieldText(find_first_local(pm, "name")),
     description |-> FieldText(find_first_local(pm, "description")),
     geometries |-> geometry_from_placemark(pm)]

\* the elements named coordinates whose text has a token float() rejects
MalformedCoordinates(root) ==
    SelectSeq(findall_local(root, "coordinates"),
              LAMBDA el : LET parts == IF el.text = None THEN <<>>
                                       ELSE SplitWhitespace(el.text[1])
                          IN  \E i \in 1..Len(parts) :
                                 /\ Len(SplitComma(parts[i])) >= 2
                                 /\ ParseToken(parts[i]) = <<>>)

\* parse_coordinates_text without its except clause: the ValueError of
\* float() leaves the call
extract_placemarksStrict(doc) ==
    IF doc.wellformed
    THEN IF MalformedCoordinates(doc.root) # <<>>
         THEN [raised |-> TRUE, error |-> Some("ValueError"), value |-> <<>>]
         ELSE LET placemark_elements == findall_local(doc.root, "Placemark") IN
              [raised |-> FALSE, error |-> None,
               value |-> [i \in 1..Len(placemark_elements) |->
                             PlacemarkRecord(placemark_elements[i])]]
    ELSE [raised |-> TRUE, error |-> Some("ParseError"), value |-> <<>>]

\* a parser that recovers: the records of the elements read before the
\* malformed part are returned
extract_placemarksRecovering(doc) ==
    LET placemark_elements == findall_local(doc.root, "Placemark") IN
    [raised |-> FALSE, error |-> None,
     value |-> [i \in 1..Len(placemark_elements) |->
                   PlacemarkRecord(placemark_elements[i])]]

\* the XML text is modelled by what ET.fromstring makes of it: the root
\* element when it is well formed, a ParseError when it is not (root is
\* then what stands before the malformed part, which no one gets to see)
extract_placemarks(doc) ==
    IF doc.wellformed
    THEN LET placemark_elements == findall_local(doc.root, "Placemark") IN
         [raised |-> FALSE, error |-> None,
          value |-> [i \in 1..Len(placemark_elements) |->
                        PlacemarkRecord(placemark_elements[i])]]
    ELSE [raised |-> TRUE, error |-> Some("ParseError"), value |-> <<>>]

-----------------------------------------------------------------------------
(* Input documents.  A document is built from a forest shape p (p[j] is    *)
(* the parent of the j-th element in document order, 0 for a top element)  *)
(* and a labelling lab of its elements; a label [tag, text, pre] gives an  *)
(* element its tag, its text and the children it has before any other.     *)

MaxTreeNodes == 3    \* elements of a document of placemarks and folders
MaxFieldNodes == 2   \* name and description elements under a placemark
MaxGeomNodes == 3    \* geometry elements under a placemark
MaxRingNodes == 3    \* boundary and ring elements under a polygon
MaxPlacemarks == 2   \* placemarks side by side in a folder

RECURSIVE AncestorsOrSelf(_, _)
AncestorsOrSelf(p, i) ==
    IF i = 0 THEN {0} ELSE {i} \cup AncestorsOrSelf(p, p[i])

\* the parent vectors of the forests of n elements listed in document order
Shapes(n) ==
    { p \in [1..n -> 0..(n - 1)] :
        \A j \in 1..n : p[j] < j /\ p[j] \in AncestorsOrSelf(p, j - 1) }

\* those with a single top element
TreeShapes(n) == { p \in Shapes(n) : \A j \in 2..n : p[j] # 0 }

RECURSIVE ElementAt(_, _, _)
RECURSIVE ChildrenFrom(_, _, _, _)
ElementAt(p, lab, i) ==
    El(lab[i].tag, lab[i].text, lab[i].pre \o ChildrenFrom(p, lab, i, i + 1))
ChildrenFrom(p, lab, i, j) ==
    IF j > Len(p) THEN <<>>
    ELSE (IF p[j] = i THEN <<ElementAt(p, lab, j)>> ELSE <<>>)
         \o ChildrenFrom(p, lab, i, j + 1)

Forest(p, lab) == ChildrenFrom(p, lab, 0, 1)

KmlNs == "http://www.opengis.net/kml/2.2"
Q(local) == <<"{", KmlNs, "}", local>>

Label(tag, txt, pre) == [tag |-> tag, text |-> txt, pre |-> pre]

Document(root) == [wellformed |-> TRUE, root |-> root]

\* coordinates texts: malformed tokens only; a coordinate with an altitude,
\* one without and a malformed token; one coordinate
TextBad == <<"b", "a", "d", ",", "t", "o", "k", "e", "n">>
TextA == <<"7", "7", ".", "5", ",", "1", "2", ".", "9", ",", "1", "0", "\n", "-", "1", "0", ",", "7", "7", ".", "5", " ", "b", "a", "d">>
TextB == <<" ", "1", "2", ".", "9", ",", "-", "1", "0", " ">>

\* documents of placemarks, folders and names, nested in any way, with
\* elements named placemark and point in lower case
PlacemarkLabels ==
    { Label(<<"Placemark">>, None, <<>>),
      Label(Q("Placemark"), None, <<>>),
      Label(<<"placemark">>, None,
            <<El(<<"point">>, None, <<El(<<"coordinates">>, Some(TextB), <<>>)>>)>>),
      Label(<<"Folder">>, None, <<>>),
      Label(<<"name">>, Some(<<"A">>), <<>>),
      Label(Q("name"), Some(<<"B">>), <<>>) }

\* a placemark over name, description and other elements
FieldTexts ==
    { None, Some(<<" ", "\n">>), Some(<<" ", "A", "\n">>), Some(<<"B">>) }

FieldLabels ==
    { Label(tag, txt, <<>>) :
        tag \in { <<"name">>, Q("description"), <<"ExtendedData">> },
        txt \in FieldTexts }

CoordinatesEl(txt) == El(<<"coordinates">>, txt, <<>>)

RingEl(txt) == El(<<"LinearRing">>, None, <<CoordinatesEl(txt)>>)

\* a placemark over geometry elements, nested in any way
GeometryLabels ==
    { Label(<<"MultiGeometry">>, None, <<>>),
      Label(<<"Point">>, None, <<>>),
      Label(<<"Point">>, None, <<CoordinatesEl(Some(TextA))>>),
      Label(<<"Point">>, None, <<CoordinatesEl(Some(TextB))>>),
      Label(<<"LineString">>, None, <<CoordinatesEl(Some(TextA))>>),
      Label(<<"LineString">>, None, <<CoordinatesEl(Some(TextBad))>>),
      Label(<<"Polygon">>, None,
            <<El(<<"outerBoundaryIs">>, None, <<RingEl(Some(TextA))>>)>>) }

\* a polygon over boundary and ring elements, nested in any way
RingLabels ==
    { Label(<<"outerBoundaryIs">>, None, <<>>),
      Label(<<"outerBoundaryIs">>, None, <<RingEl(Some(TextA))>>),
      Label(<<"innerBoundaryIs">>, None, <<>>),
      Label(<<"LinearRing">>, None, <<CoordinatesEl(Some(TextBad))>>),
      Label(<<"LinearRing">>, None, <<CoordinatesEl(Some(TextA))>>),
      Label(<<"LinearRing">>, None, <<CoordinatesEl(Some(TextB))>>) }

PlacemarkOver(children) == El(<<"Placemark">>, None, children)

\* what a placemark holds: nothing; a name and a point; elements without a
\* coordinate, a ring or a text only; a description, a polygon whose ring has
\* malformed tokens only and a line; a name without text and a polygon
PlacemarkContents ==
    { <<>>,
      << El(<<"name">>, Some(<<" ", "A", "\n">>), <<>>),
         El(<<"Point">>, None, <<CoordinatesEl(Some(TextB))>>) >>,
      << El(<<"LineString">>, None, <<CoordinatesEl(Some(TextBad))>>),
         El(<<"Point">>, None, <<>>),
         El(<<"Polygon">>, None, <<El(<<"innerBoundaryIs">>, None, <<>>)>>),
         El(<<"LineString">>, None, <<CoordinatesEl(None)>>) >>,
      << El(Q("description"), Some(<<"B">>), <<>>),
         El(<<"Polygon">>, None, <<RingEl(Some(TextBad))>>),
         El(<<"LineString">>, None, <<CoordinatesEl(Some(TextA))>>) >>,
      << El(<<"name">>, None, <<>>),
         El(<<"Polygon">>, None,
            <<El(<<"outerBoundaryIs">>, None, <<RingEl(Some(TextA))>>)>>) >> }

\* the document whose placemark has a line and a polygon ring, both with the
\* coordinates text txt
CoordinatesDocument(txt) ==
    Document(PlacemarkOver(<<
        El(<<"LineString">>, None, <<CoordinatesEl(txt)>>),
        El(<<"Polygon">>, None, <<RingEl(txt)>>) >>))

-----------------------------------------------------------------------------
(* Calls                                                                   *)

\* no file is read
NoReader ==
    /\ path = <<>>
    /\ file = [kind |-> "missing", data |-> <<>>, entries |-> <<>>]
    /\ kml_read = None
    /\ mpc = "idle"
    /\ exit_code = None
    /\ processed = None
    /\ ppc = "idle"

\* no invocation runs side by side with another
NoCalls == calls = <<>>

\* the upload page is not open
NoUpload ==
    /\ data_file = [kind |-> "missing", features |-> <<>>]
    /\ session_plantations = <<>>
    /\ messages = <<>>

CallParseCoordinatesText ==
    /\ cpc = "ready"
    /\ coords' = parse_coordinates_text(text)
    /\ cpc' = "done"
    /\ UNCHANGED <<text, kml_text, result, pc, exc>>
    /\ UNCHANGED <<readVars, callVars, uploadVars>>

CallExtractPlacemarks ==
    /\ pc = "ready"
    /\ LET r == extract_placemarks(kml_text) IN
         /\ pc' = IF r.raised THEN "raised" ELSE "done"
         /\ result' = r.value
         /\ exc' = r.error
    /\ UNCHANGED <<kml_text, text, coords, cpc>>
    /\ UNCHANGED <<readVars, callVars, uploadVars>>

\* one extract_placemarks call on a document of one of the five families
InitTree ==
    \E n \in 1..MaxTreeNodes : \E p \in TreeShapes(n) :
        \E lab \in [1..n -> PlacemarkLabels] : \E wf \in BOOLEAN :
            kml_text = [wellformed |-> wf, root |-> Forest(p, lab)[1]]

InitFields ==
    \E n \in 0..MaxFieldNodes : \E p \in Shapes(n) :
        \E lab \in [1..n -> FieldLabels] :
            kml_text = Document(PlacemarkOver(Forest(p, lab)))

InitGeometries ==
    \E n \in 0..MaxGeomNodes : \E p \in Shapes(n) :
        \E lab \in [1..n -> GeometryLabels] :
            kml_text = Document(PlacemarkOver(Forest(p, lab)))

InitRings ==
    \E n \in 0..MaxRingNodes : \E p \in Shapes(n) :
        \E lab \in [1..n -> RingLabels] :
            kml_text = Document(PlacemarkOver(
                           <<El(<<"Polygon">>, None, Forest(p, lab))>>))

InitPlacemarks ==
    \E n \in 1..MaxPlacemarks : \E f \in [1..n -> PlacemarkContents] :
        kml_text = Document(El(<<"Folder">>, None,
                               [i \in 1..n |-> PlacemarkOver(f[i])]))

Init ==
    /\ InitTree \/ InitFields \/ InitGeometries \/ InitRings \/ InitPlacemarks
    /\ result = <<>>
    /\ pc = "ready"
    /\ exc = None
    /\ NoReader
    /\ NoCalls
    /\ NoUpload
    /\ text = None
    /\ coords = <<>>
    /\ cpc = "done"

Next == CallExtractPlacemarks

Spec == Init /\ [][Next]_vars

\* one parse_coordinates_text call on no text or a text of components
InitCoords ==
    /\ \/ text = None
       \/ \E n \in 1..MaxFields : \E f \in [1..n -> Components] :
              \E d \in [1..(n - 1) -> Delimiters] :
                  text = Some(Padded(Delimited(f, d, n)))
    /\ coords = <<>>
    /\ cpc = "ready"
    /\ kml_text = CoordinatesDocument(None)
    /\ result = <<>>
    /\ pc = "done"
    /\ exc = None
    /\ NoReader
    /\ NoCalls
    /\ NoUpload

NextCoords == CallParseCoordinatesText

SpecCoords == InitCoords /\ [][NextCoords]_vars

\* one parse_coordinates_text call on a text of tokens, and one
\* extract_placemarks call on the document with that coordinates text
InitAltitude ==
    /\ \E n \in 1..MaxCoords : \E f \in [1..n -> CoordinateTokens] :
           text = Some(Joined(f, n, <<"\n", " ">>))
    /\ coords = <<>>
    /\ cpc = "ready"
    /\ kml_text = CoordinatesDocument(text)
    /\ result = <<>>
    /\ pc = "ready"
    /\ exc = None
    /\ NoReader
    /\ NoCalls
    /\ NoUpload

NextAltitude == CallParseCoordinatesText \/ CallExtractPlacemarks

SpecAltitude == InitAltitude /\ [][NextAltitude]_vars

-----------------------------------------------------------------------------
(* Reading a document.  A byte is written as the character it encodes when *)
(* it is ASCII and by its hexadecimal name when it is not; a text is a     *)
(* sequence of characters, a character outside ASCII written "U+....".     *)

MaxBodyBytes == 2    \* bytes of the part of a document that varies
MaxEntries == 2      \* entries of an archive

UpperCase ==
    <<"A", "B", "C", "D", "E", "F", "G", "H", "I", "J", "K", "L", "M",
      "N", "O", "P", "Q", "R", "S", "T", "U", "V", "W", "X", "Y", "Z">>

LowerCase ==
    <<"a", "b", "c", "d", "e", "f", "g", "h", "i", "j", "k", "l", "m",
      "n", "o", "p", "q", "r", "s", "t", "u", "v", "w", "x", "y", "z">>

\* str.lower()
Lower(s) ==
    [i \in 1..Len(s) |->
        IF \E k \in 1..26 : UpperCase[k] = s[i]
        THEN LowerCase[CHOOSE k \in 1..26 : UpperCase[k] = s[i]]
        ELSE s[i]]

\* str.endswith(suffix)
EndsWith(s, suffix) ==
    /\ Len(s) >= Len(suffix)
    /\ SubSeq(s, Len(s) - Len(suffix) + 1, Len(s)) = suffix

DotKmz == <<".", "k", "m", "z">>
DotKml == <<".", "k", "m", "l">>

\* UTF-8, as far as the bytes of the inputs go: C3 opens a sequence of two
\* bytes, A9 continues one, FF stands in no sequence; C3 A9 encodes U+00E9
LeadBytes == {"C3"}
ContinuationBytes == {"A9"}
InvalidBytes == {"FF"}

\* the units the decoder reads: a character, or an invalid byte.  A lead
\* byte with its continuation is one unit; a lead byte without one is
\* invalid alone, and the byte after it opens the next unit.
Utf8Units(b) ==
    LET continues(i) ==
            i > 1 /\ b[i] \in ContinuationBytes /\ b[i - 1] \in LeadBytes
        starts == SelectSeq([i \in 1..Len(b) |-> i], LAMBDA i : ~continues(i))
    IN  [k \in 1..Len(starts) |->
            LET i == starts[k] IN
            IF b[i] \in LeadBytes /\ i < Len(b) /\ b[i + 1] \in ContinuationBytes
            THEN [valid |-> TRUE, char |-> "U+00E9"]
            ELSE IF b[i] \in LeadBytes \cup ContinuationBytes \cup InvalidBytes
                 THEN [valid |-> FALSE, char |-> "U+FFFD"]
                 ELSE [valid |-> TRUE, char |-> b[i]]]

Return(v) == [raised |-> FALSE, error |-> None, value |-> v]
Raise(class) == [raised |-> TRUE, error |-> Some(class), value |-> <<>>]

\* bytes.decode('utf-8', errors), and the decoding of open(..., 'r',
\* encoding='utf-8'), whose errors is 'strict'
Decode(b, errors) ==
    LET units == Utf8Units(b) IN
    IF errors = "strict" /\ \E i \in 1..Len(units) : ~units[i].valid
    THEN Raise("UnicodeDecodeError")
    ELSE Return([i \in 1..Len(units) |-> units[i].char])

\* what a file opened in text mode makes of the line ends: \r\n and \r
\* are read as \n
UniversalNewlines(t) ==
    LET dropped(i) == i > 1 /\ t[i] = "\n" /\ t[i - 1] = "\r"
        kept == SelectSeq([i \in 1..Len(t) |-> i], LAMBDA i : ~dropped(i))
    IN  [k \in 1..Len(kept) |->
            IF t[kept[k]] = "\r" THEN "\n" ELSE t[kept[k]]]

\* what is stored under a name: nothing, bytes that are no archive, or an
\* archive with its entries [name, data] in the order of its directory
Missing == [kind |-> "missing", data |-> <<>>, entries |-> <<>>]
BytesFile(data) == [kind |-> "bytes", data |-> data, entries |-> <<>>]
ZipFile(entries) == [kind |-> "zip", data |-> <<>>, entries |-> entries]

\* ZipFile.namelist()
NameList(z) == [i \in 1..Len(z.entries) |-> z.entries[i].name]

\* ZipFile.open(name).read() and ZipFile.read(name): the entry is looked up
\* by its name, and of two entries with one name the later is found
ZipRead(z, name) ==
    LET i == CHOOSE i \in 1..Len(z.entries) :
                 /\ z.entries[i].name = name
                 /\ \A j \in (i + 1)..Len(z.entries) : z.entries[j].name # name
    IN  z.entries[i].data

\* the names of the archive that end in .kml
KmlNames(z) == SelectSeq(NameList(z), LAMBDA n : EndsWith(Lower(n), DotKml))

\* an archive without a document reported as an archive that cannot be
\* read
read_kml_from_pathBadZip(p, f) ==
    IF EndsWith(Lower(p), DotKmz)
    THEN CASE f.kind = "missing" -> Raise("FileNotFoundError")
           [] f.kind = "bytes" -> Raise("BadZipFile")
           [] f.kind = "zip" ->
                LET kml_names == KmlNames(f) IN
                IF kml_names = <<>> THEN Raise("BadZipFile")
                ELSE Decode(ZipRead(f, kml_names[1]), "replace")
    ELSE IF f.kind = "missing" THEN Raise("FileNotFoundError")
         ELSE LET d == Decode(f.data, "strict") IN
              IF d.raised THEN d ELSE Return(UniversalNewlines(d.value))

read_kml_from_path(p, f) ==
    IF EndsWith(Lower(p), DotKmz)
    THEN CASE f.kind = "missing" -> Raise("FileNotFoundError")
           [] f.kind = "bytes" -> Raise("BadZipFile")
           [] f.kind = "zip" ->
                LET kml_names == KmlNames(f) IN
                IF kml_names = <<>> THEN Raise("ValueError")
                ELSE Decode(ZipRead(f, kml_names[1]), "replace")
    ELSE IF f.kind = "missing" THEN Raise("FileNotFoundError")
         ELSE LET d == Decode(f.data, "strict") IN
              IF d.raised THEN d ELSE Return(UniversalNewlines(d.value))

\* process_kml, the reading: kml_content, or the exception that leaves the
\* with statement (an uploaded file is never missing)
process_kml_content(name, f) ==
    IF EndsWith(Lower(name), DotKmz)
    THEN IF f.kind = "zip"
         THEN LET kml_names == KmlNames(f) IN
              IF kml_names # <<>>
              THEN Decode(ZipRead(f, kml_names[1]), "replace")
              ELSE Return(<<>>)
         ELSE Raise("BadZipFile")
    ELSE Decode(f.data, "replace")

\* the documents read: the bytes of XmlPrefix, a body and XmlSuffix.  The
\* parser reads \r\n and \r as \n; a body with < has an unclosed tag.
XmlPrefix ==
    <<"<", "P", "l", "a", "c", "e", "m", "a", "r", "k", ">", "<", "n", "a",
      "m", "e", ">">>

XmlSuffix ==
    <<"<", "/", "n", "a", "m", "e", ">", "<", "P", "o", "i", "n", "t", ">",
      "<", "c", "o", "o", "r", "d", "i", "n", "a", "t", "e", "s", ">", "1",
      ",", "2", "<", "/", "c", "o", "o", "r", "d", "i", "n", "a", "t", "e",
      "s", ">", "<", "/", "P", "o", "i", "n", "t", ">", "<", "/", "P", "l",
      "a", "c", "e", "m", "a", "r", "k", ">">>

Wrapped(body) == XmlPrefix \o body \o XmlSuffix

\* ET.fromstring, for the texts the readers return on these documents
FromString(t) ==
    LET n == Len(t) - Len(XmlPrefix) - Len(XmlSuffix)
        body == SubSeq(t, Len(XmlPrefix) + 1, Len(XmlPrefix) + n)
    IN  IF /\ n >= 0
           /\ SubSeq(t, 1, Len(XmlPrefix)) = XmlPrefix
           /\ SubSeq(t, Len(t) - Len(XmlSuffix) + 1, Len(t)) = XmlSuffix
           /\ \A i \in 1..n : body[i] # "<"
        THEN [wellformed |-> TRUE,
              root |-> El(<<"Placemark">>, None,
                          << El(<<"name">>,
                                IF body = <<>> THEN None
                                ELSE Some(UniversalNewlines(body)), <<>>),
                             El(<<"Point">>, None,
                                <<CoordinatesEl(Some(<<"1", ",", "2">>))>>) >>)]
        ELSE [wellformed |-> FALSE, root |-> None]

\* the features of process_kml for the records placemarks: one for each
\* geometry, named after the placemark (area and length left out; the
\* documents read have no description and so no attribute)
process_kml_features(placemarks) ==
    Concat([i \in 1..Len(placemarks) |->
              [k \in 1..Len(placemarks[i].geometries) |->
                  [name |-> IF placemarks[i].name \in {None, Some(<<>>)}
                            THEN <<"N", "/", "A">>
                            ELSE placemarks[i].name[1],
                   geometry |-> Some(placemarks[i].geometries[k])]]])

\* process_kml: the features returned and the message shown, if any
process_kml(name, f) ==
    LET c == process_kml_content(name, f) IN
    IF c.raised
    THEN [content |-> c, features |-> <<>>, shown |-> "error"]
    ELSE IF c.value = <<>>
         THEN [content |-> c, features |-> <<>>, shown |-> "warning"]
         ELSE LET r == extract_placemarks(FromString(c.value)) IN
              IF r.raised
              THEN [content |-> c, features |-> <<>>, shown |-> "error"]
              ELSE [content |-> c,
                    features |-> process_kml_features(r.value),
                    shown |-> "none"]

\* the inputs of the readers
FileNames == { <<"a", ".", "k", "m", "l">>, <<"a", ".", "k", "m", "z">>, <<"A", ".", "K", "m", "Z">> }

EntryNames == { <<"d", "o", "c", ".", "k", "m", "l">>, <<"B", ".", "K", "M", "L">>, <<"a", ".", "t", "x", "t">> }

BodyBytes == {"A", "\r", "\n", "<", "C3", "A9", "FF"}

Entry(name, data) == [name |-> name, data |-> data]

\* the document of the i-th entry of an archive of several entries
EntryDocument(i) == Wrapped(<<CHOOSE d \in Digits : DigitValue(d) = i>>)

\* the exception classes of Python and of its library that the readers and
\* the extractor raise, each with its base class
Base(class) ==
    CASE class = "FileNotFoundError" -> "OSError"
      [] class = "OSError" -> "Exception"
      [] class = "BadZipFile" -> "Exception"
      [] class = "UnicodeDecodeError" -> "UnicodeError"
      [] class = "UnicodeError" -> "ValueError"
      [] class = "ValueError" -> "Exception"
      [] class = "ParseError" -> "SyntaxError"
      [] class = "SyntaxError" -> "Exception"
      [] class = "Exception" -> "BaseException"

\* issubclass(class, other): what 'except other' catches
RECURSIVE IsSubclass(_, _)
IsSubclass(class, other) ==
    \/ class = other
    \/ class # "BaseException" /\ IsSubclass(Base(class), other)

\* main of kml_parser.py: the read, then the extraction; both are under
\* 'except Exception', which catches every class above
MainRead ==
    /\ mpc = "read"
    /\ kml_read' = Some(read_kml_from_path(path, file))
    /\ IF kml_read'[1].raised
       THEN /\ IsSubclass(kml_read'[1].error[1], "Exception")
            /\ exit_code' = Some(2)
            /\ mpc' = "return"
            /\ UNCHANGED kml_text
       ELSE /\ kml_text' = FromString(kml_read'[1].value)
            /\ mpc' = "extract"
            /\ UNCHANGED exit_code
    /\ UNCHANGED <<text, coords, cpc, result, pc, exc, path, file, processed, ppc>>
    /\ UNCHANGED <<callVars, uploadVars>>

MainExtract ==
    /\ mpc = "extract"
    /\ LET r == extract_placemarks(kml_text) IN
         /\ result' = r.value
         /\ exc' = r.error
         /\ pc' = IF r.raised THEN "raised" ELSE "done"
         /\ exit_code' = Some(IF r.raised THEN 3 ELSE 0)
    /\ mpc' = "return"
    /\ UNCHANGED <<text, coords, cpc, kml_text, path, file, kml_read, processed, ppc>>
    /\ UNCHANGED <<callVars, uploadVars>>

\* process_kml of the upload page on the same file
CallProcessKml ==
    /\ ppc = "ready"
    /\ processed' = Some(process_kml(path, file))
    /\ ppc' = "done"
    /\ UNCHANGED <<text, coords, cpc, kml_text, result, pc, exc,
                   path, file, kml_read, mpc, exit_code>>
    /\ UNCHANGED <<callVars, uploadVars>>

\* main and process_kml on a file: no file, an empty file, a document, an
\* archive of one entry with a document, an archive of entries with
\* documents that differ (an archive is read under a .kmz name only)
InitRead ==
    /\ \E p \in FileNames :
          /\ path = p
          /\ \/ file = Missing
             \/ file = BytesFile(<<>>)
             \/ \E n \in 0..MaxBodyBytes : \E body \in [1..n -> BodyBytes] :
                    \/ file = BytesFile(Wrapped(body))
                    \/ /\ EndsWith(Lower(p), DotKmz)
                       /\ \E name \in EntryNames :
                              file = ZipFile(<<Entry(name, Wrapped(body))>>)
             \/ /\ EndsWith(Lower(p), DotKmz)
                /\ \E k \in 0..MaxEntries : \E names \in [1..k -> EntryNames] :
                       file = ZipFile([i \in 1..k |->
                                         Entry(names[i], EntryDocument(i))])
    /\ kml_read = None
    /\ mpc = "read"
    /\ exit_code = None
    /\ processed = None
    /\ ppc = IF file = Missing THEN "idle" ELSE "ready"
    /\ kml_text = [wellformed |-> FALSE, root |-> None]
    /\ result = <<>>
    /\ pc = "ready"
    /\ exc = None
    /\ text = None
    /\ coords = <<>>
    /\ cpc = "done"
    /\ NoCalls
    /\ NoUpload

NextRead == MainRead \/ MainExtract \/ CallProcessKml

SpecRead == InitRead /\ [][NextRead]_vars

-----------------------------------------------------------------------------
(* extract_placemarks step by step, in invocations that run side by side.  *)
(* What an invocation works on is its argument and its local variables     *)
(* root, placemark_elements, result and the loop variable pm; the module   *)
(* has no variable of its own (lines 8-12 import, the rest defines         *)
(* functions).                                                             *)

MaxCallPlacemarks == 2   \* placemarks of a document given to an invocation

Invocations == {1, 2}

\* the contents of a placemark that has a geometry
CallContents ==
    { c \in PlacemarkContents : geometry_from_placemark(PlacemarkOver(c)) # <<>> }

\* the locals of an invocation that was called with the text t; i is the
\* position of pm in placemark_elements
Frame(t) ==
    [kml_text |-> t, placemark_elements |-> <<>>, i |-> 1, result |-> <<>>,
     exc |-> None, pc |-> "parse"]

\* lines 152-154: the text is parsed, the placemarks are found, result = []
ParseText(fr) ==
    IF fr.kml_text.wellformed
    THEN [fr EXCEPT !.placemark_elements =
                        findall_local(fr.kml_text.root, "Placemark"),
                    !.result = <<>>,
                    !.pc = "loop"]
    ELSE [fr EXCEPT !.exc = Some("ParseError"), !.pc = "raised"]

\* a result list that belongs to the module: every invocation appends to
\* the one list
AppendRecordShared(c, k) ==
    LET rec == PlacemarkRecord(c[k].placemark_elements[c[k].i]) IN
    [j \in DOMAIN c |->
        IF j = k THEN [c[j] EXCEPT !.result = Append(@, rec), !.i = @ + 1]
        ELSE [c[j] EXCEPT !.result = Append(@, rec)]]

\* lines 155-161: one turn of the loop of invocation k appends the record
\* of pm to the result of that invocation
AppendRecord(c, k) ==
    LET rec == PlacemarkRecord(c[k].placemark_elements[c[k].i]) IN
    [c EXCEPT ![k].result = Append(@, rec), ![k].i = @ + 1]

InvocationParse(k) ==
    /\ calls[k].pc = "parse"
    /\ calls' = [calls EXCEPT ![k] = ParseText(@)]
    /\ UNCHANGED <<text, coords, cpc, extractVars, readVars, uploadVars>>

InvocationLoop(k) ==
    /\ calls[k].pc = "loop"
    /\ calls[k].i <= Len(calls[k].placemark_elements)
    /\ calls' = AppendRecord(calls, k)
    /\ UNCHANGED <<text, coords, cpc, extractVars, readVars, uploadVars>>

\* line 162
InvocationReturn(k) ==
    /\ calls[k].pc = "loop"
    /\ calls[k].i > Len(calls[k].placemark_elements)
    /\ calls' = [calls EXCEPT ![k].pc = "done"]
    /\ UNCHANGED <<text, coords, cpc, extractVars, readVars, uploadVars>>

\* a folder of the placemarks with the contents f
FolderOf(f) ==
    El(<<"Folder">>, None, [i \in 1..Len(f) |-> PlacemarkOver(f[i])])

\* every invocation is called with a folder of placemarks, as a text that
\* is well formed or as one that is not
InitCalls ==
    /\ \E n \in [Invocations -> 0..MaxCallPlacemarks] :
          \E f1 \in [1..n[1] -> CallContents] :
             \E f2 \in [1..n[2] -> CallContents] :
                \E wf \in [Invocations -> BOOLEAN] :
                   calls = [k \in Invocations |->
                              Frame([wellformed |-> wf[k],
                                     root |-> FolderOf(IF k = 1 THEN f1
                                                       ELSE f2)])]
    /\ kml_text = [wellformed |-> FALSE, root |-> None]
    /\ result = <<>>
    /\ pc = "ready"
    /\ exc = None
    /\ text = None
    /\ coords = <<>>
    /\ cpc = "done"
    /\ NoReader
    /\ NoUpload

NextCalls ==
    \E k \in Invocations :
        InvocationParse(k) \/ InvocationLoop(k) \/ InvocationReturn(k)

SpecCalls == InitCalls /\ [][NextCalls]_vars

-----------------------------------------------------------------------------
(* The upload page, pages/1_Upload_Plantation.py: the data file, the       *)
(* plantations of the session, and the handlers of the page.  A plantation *)
(* is a dict, here a record; its geometry is None or Some(g).  The data    *)
(* file is missing, empty (not JSON), or a feature collection.             *)

MaxNewPlantations == 2   \* plantations in one save_plantations_to_geojson call
MaxSession == 2          \* plantations in the session list
MaxUploadPlacemarks == 1 \* placemarks of an uploaded document

\* p.get(key)
Get(p, key) == IF key \in DOMAIN p THEN p[key] ELSE None

\* list.pop(): the last element is removed, whatever the position asked
PopLast(list, i) == SubSeq(list, 1, Len(list) - 1)

\* list.pop(i), the list that is left (positions from 1)
Pop(list, i) ==
    [j \in 1..(Len(list) - 1) |-> IF j < i THEN list[j] ELSE list[j + 1]]

\* st.warning, st.success: the message displayed
Warning(what, name) == [kind |-> "warning", text |-> what, name |-> name]
Success(what, name) == [kind |-> "success", text |-> what, name |-> name]

\* lines 31-38: the feature collection read from the data file
LoadFeatures(f) == IF f.kind = "json" THEN f.features ELSE <<>>

\* lines 46-57: the feature of a plantation
Feature(p) ==
    [geometry |-> Get(p, "geometry")[1],
     properties |-> [k \in DOMAIN p \ {"geometry"} |-> p[k]]]

\* save_plantations_to_geojson: the data file written and the warnings
\* shown.  existing_names is computed once, before the loop (line 40).
save_plantations_to_geojson(f, new_plantations) ==
    LET features == LoadFeatures(f)
        existing_names ==
            { Get(features[i].properties, "name") : i \in 1..Len(features) }
        skipped == SelectSeq(new_plantations,
                             LAMBDA q : Get(q, "name") \in existing_names)
        kept == SelectSeq(new_plantations,
                          LAMBDA q : /\ Get(q, "name") \notin existing_names
                                     /\ Get(q, "geometry") # None)
    IN  [file |-> [kind |-> "json",
                   features |-> features \o
                                [i \in 1..Len(kept) |-> Feature(kept[i])]],
         shown |-> [i \in 1..Len(skipped) |->
                       Warning("already exists", Get(skipped[i], "name"))]]

\* the inputs: the children of the placemarks of an uploaded document
NameA == <<"A">>
NameB == <<"B">>
UploadContents ==
    { << El(<<"name">>, Some(NameA), <<>>),
         El(<<"Point">>, None, <<CoordinatesEl(Some(TextB))>>) >>,
      << El(<<"name">>, Some(NameA), <<>>),
         El(<<"Point">>, None, <<CoordinatesEl(Some(TextB))>>),
         El(<<"LineString">>, None, <<CoordinatesEl(Some(TextA))>>) >>,
      << El(<<"name">>, Some(NameB), <<>>),
         El(<<"LineString">>, None, <<CoordinatesEl(Some(TextA))>>) >> }

\* what process_kml makes of the contents of one placemark
PlantationsOf(c) ==
    process_kml_features(extract_placemarks(Document(PlacemarkOver(c))).value)

\* the plantations a caller hands to save_plantations_to_geojson: those
\* process_kml makes, and the same without a geometry
Plantations ==
    LET made == UNION { { PlantationsOf(c)[i] : i \in 1..Len(PlantationsOf(c)) } :
                        c \in UploadContents }
    IN  made \cup { [q EXCEPT !.geometry = None] : q \in made }

PlantationNames == {NameA, NameB}
PlantationTypes == {"", "Block"}

\* a call of save_plantations_to_geojson with any list
CallSave ==
    /\ \E n \in 0..MaxNewPlantations : \E new \in [1..n -> Plantations] :
          LET r == save_plantations_to_geojson(data_file, new) IN
          /\ data_file' = r.file
          /\ messages' = r.shown
    /\ UNCHANGED <<session_plantations, text, coords, cpc, extractVars,
                   readVars, callVars>>

\* lines 145-164, "Add to Session": the plantations of the uploaded
\* document are appended to the session list
UploadFile ==
    /\ \E n \in 0..MaxUploadPlacemarks : \E f \in [1..n -> UploadContents] :
          \E wf \in BOOLEAN :
             LET r == extract_placemarks([wellformed |-> wf,
                                          root |-> FolderOf(f)])
                 new_plantations == IF r.raised THEN <<>>
                                    ELSE process_kml_features(r.value)
             IN  /\ Len(session_plantations) + Len(new_plantations) <= MaxSession
                 /\ IF new_plantations # <<>>
                    THEN /\ session_plantations' =
                                session_plantations \o new_plantations
                         /\ messages' = <<Success("added to session", None)>>
                    ELSE /\ UNCHANGED session_plantations
                         /\ messages' =
                              (IF r.raised
                               THEN <<[kind |-> "error",
                                       text |-> "error processing file",
                                       name |-> None]>>
                               ELSE <<>>)
                              \o <<Warning("no new plantations", None)>>
    /\ UNCHANGED <<data_file, text, coords, cpc, extractVars, readVars, callVars>>

\* lines 216-233, "Add to Database" in the form of plantation i, with the
\* name and the plantation type of the form
AddToDatabase ==
    /\ \E i \in 1..Len(session_plantations) :
          \E name \in PlantationNames : \E plantation_type \in PlantationTypes :
             LET q == session_plantations[i]
                 updated_properties ==
                     [k \in DOMAIN q \cup {"name", "plantation_type"} |->
                         CASE k = "name" -> name
                           [] k = "plantation_type" -> plantation_type
                           [] OTHER -> q[k]]
                 r == save_plantations_to_geojson(data_file,
                                                  <<updated_properties>>)
             IN  IF plantation_type = ""
                 THEN /\ messages' = <<Warning("select a plantation type", None)>>
                      /\ UNCHANGED <<data_file, session_plantations>>
                 ELSE /\ data_file' = r.file
                      /\ session_plantations' = Pop(session_plantations, i)
                      /\ messages' = r.shown
                                       \o <<Success("added to database", name)>>
    /\ UNCHANGED <<text, coords, cpc, extractVars, readVars, callVars>>

\* lines 234-237, "Delete from Session" in the form of plantation i
DeleteFromSession ==
    /\ \E i \in 1..Len(session_plantations) :
          /\ session_plantations' = Pop(session_plantations, i)
          /\ messages' = <<Warning("removed from session",
                                   Get(session_plantations[i], "name"))>>
    /\ UNCHANGED <<data_file, text, coords, cpc, extractVars, readVars, callVars>>

\* the page is opened on a data file that is missing or empty
InitUpload ==
    /\ data_file \in { [kind |-> "missing", features |-> <<>>],
                       [kind |-> "empty", features |-> <<>>] }
    /\ session_plantations = <<>>
    /\ messages = <<>>
    /\ kml_text = [wellformed |-> FALSE, root |-> None]
    /\ result = <<>>
    /\ pc = "ready"
    /\ exc = None
    /\ text = None
    /\ coords = <<>>
    /\ cpc = "done"
    /\ NoReader
    /\ NoCalls

\* the page calls save_plantations_to_geojson from "Add to Database" only
NextUpload == UploadFile \/ AddToDatabase \/ DeleteFromSession

SpecUpload == InitUpload /\ [][NextUpload]_vars

\* save_plantations_to_geojson called by any caller, with any lists, on a
\* data file that is missing or empty at first
InitSave == InitUpload

NextSave == CallSave

SpecSave == InitSave /\ [][NextSave]_vars

-----------------------------------------------------------------------------
(* The document as the claims speak of it: an element is named by its path *)
(* (the child indexes from the root), document order is the order of the   *)
(* paths, a prefix first.                                                  *)

RECURSIVE At(_, _)
At(el, q) ==
    IF q = <<>> THEN el ELSE At(el.children[Head(q)], Tail(q))

RECURSIVE Paths(_)
Paths(el) ==
    {<<>>} \cup UNION { { <<i>> \o q : q \in Paths(el.children[i]) } :
                          i \in 1..Len(el.children) }

IsPrefix(a, b) == Len(a) <= Len(b) /\ SubSeq(b, 1, Len(a)) = a

Before(a, b) ==
    \/ a # b /\ IsPrefix(a, b)
    \/ \E k \in 1..Len(a) :
          /\ k <= Len(b)
          /\ SubSeq(a, 1, k - 1) = SubSeq(b, 1, k - 1)
          /\ a[k] < b[k]

\* a set of paths as the sequence of its members in document order
InOrder(ps) ==
    LET earlier == [q \in ps |-> Cardinality({ r \in ps : Before(r, q) })] IN
    [i \in 1..Cardinality(ps) |-> CHOOSE q \in ps : earlier[q] = i - 1]

\* the local name of a qualified name
LocalName(tag) == tag[Len(tag)]

\* the paths, from el, of the elements in the subtree of el named name
Named(el, name) == { q \in Paths(el) : LocalName(At(el, q).tag) = name }

\* el and its descendants named name, in document order
ElementsNamed(el, name) ==
    LET qs == InOrder(Named(el, name)) IN [i \in 1..Len(qs) |-> At(el, qs[i])]

Root == kml_text.root

-----------------------------------------------------------------------------
(* C1: for well-formed XML with N elements of local name Placemark, at any *)
(* depth, extract_placemarks returns exactly N records, and the i-th       *)
(* record is the record of the i-th Placemark element in document order.   *)
C1_CountAndOrder ==
    pc = "done" =>
        LET pms == ElementsNamed(Root, "Placemark") IN
        /\ Len(result) = Len(pms)
        /\ \A i \in 1..Len(pms) : result[i] = PlacemarkRecord(pms[i])

\* two placemarks, one nested in the other, with different records
C1_Witness ==
    /\ pc = "done"
    /\ Len(result) >= 2
    /\ result[1] # result[2]
    /\ \E q \in Named(Root, "Placemark") : \E r \in Named(Root, "Placemark") :
          q # r /\ IsPrefix(q, r)

-----------------------------------------------------------------------------
(* A coordinates text as the claims speak of it: its tokens are the        *)
(* maximal runs of characters other than whitespace, the components of a   *)
(* token are the pieces between its commas.                                *)

\* the k-th smallest member of a set of integers
Nth(S, k) == CHOOSE x \in S : Cardinality({ y \in S : y < x }) = k - 1

\* the least member of a non-empty set of integers
Least(S) == CHOOSE x \in S : \A y \in S : x <= y

TokensIn(s) ==
    LET starts == { i \in 1..Len(s) :
                      s[i] \notin Whitespace /\ (i = 1 \/ s[i - 1] \in Whitespace) }
        ends == { j \in 1..Len(s) :
                    s[j] \notin Whitespace /\ (j = Len(s) \/ s[j + 1] \in Whitespace) }
    IN  [k \in 1..Cardinality(starts) |->
            LET i == Nth(starts, k) IN
            SubSeq(s, i, Least({ j \in ends : j >= i }))]

Fields(t) ==
    LET commas == { i \in 1..Len(t) : t[i] = "," }
        n == Cardinality(commas) + 1
    IN  [k \in 1..n |->
            SubSeq(t, IF k = 1 THEN 1 ELSE Nth(commas, k - 1) + 1,
                      IF k = n THEN Len(t) ELSE Nth(commas, k) - 1)]

\* of the fields f of a token: it has an altitude; it is dropped
HasAltitude(f) == Len(f) >= 3 /\ f[3] # <<>>

Dropped(f) ==
    \/ Len(f) < 2
    \/ ~IsFloat(f[1])
    \/ ~IsFloat(f[2])
    \/ HasAltitude(f) /\ ~IsFloat(f[3])

\* the fields of the tokens of an optional text that are not dropped, in the
\* order of the tokens
KeptTokens(t) ==
    IF t = None THEN <<>>
    ELSE LET toks == TokensIn(t[1]) IN
         SelectSeq([i \in 1..Len(toks) |-> Fields(toks[i])],
                   LAMBDA f : ~Dropped(f))

\* the coordinate of a token of fields f that is not dropped
CoordinateOf(f) ==
    <<Float(f[1]), Float(f[2]),
      IF HasAltitude(f) THEN Some(Float(f[3])) ELSE None>>

-----------------------------------------------------------------------------
(* C6: parse_coordinates_text drops a token if and only if it has fewer    *)
(* than 2 components, or its first or second component is not a number, or *)
(* it has a non-empty third component that is not a number; every other    *)
(* token yields exactly one coordinate, whatever the tokens around it, and *)
(* the coordinates are in the order of their tokens.                       *)
C6_TokenDropping ==
    cpc = "done" =>
        LET kept == KeptTokens(text) IN
        /\ Len(coords) = Len(kept)
        /\ \A i \in 1..Len(kept) : coords[i] = CoordinateOf(kept[i])

\* a token dropped for its third component only, before a token that is kept
C6_Witness ==
    /\ cpc = "done"
    /\ text # None
    /\ LET toks == TokensIn(text[1]) IN
         /\ Len(toks) = 2
         /\ Len(Fields(toks[1])) = 3
         /\ IsFloat(Fields(toks[1])[1]) /\ IsFloat(Fields(toks[1])[2])
         /\ Dropped(Fields(toks[1]))
         /\ ~Dropped(Fields(toks[2]))
    /\ Len(coords) = 1

\* what a coordinate (lon, lat, alt?) becomes in a geometry
TupleOf(f) ==
    IF HasAltitude(f)
    THEN <<Float(f[1]), Float(f[2]), Float(f[3])>>
    ELSE <<Float(f[1]), Float(f[2])>>

(* C7: a kept token lon,lat,alt parses to (lon, lat, alt), a kept token    *)
(* lon,lat or lon,lat, (empty third component) to (lon, lat, None); in the *)
(* LineString and the polygon ring made of the text each coordinate has    *)
(* three components when its token has an altitude and two when it has     *)
(* not, whatever the other coordinates of the sequence.                    *)
C7_AltitudePerCoordinate ==
    LET kept == KeptTokens(text)
        tuples == [i \in 1..Len(kept) |-> TupleOf(kept[i])]
    IN  /\ cpc = "done" =>
              /\ Len(coords) = Len(kept)
              /\ \A i \in 1..Len(kept) :
                    /\ coords[i][1] = Float(kept[i][1])
                    /\ coords[i][2] = Float(kept[i][2])
                    /\ coords[i][3] = IF HasAltitude(kept[i])
                                      THEN Some(Float(kept[i][3]))
                                      ELSE None
        /\ (pc = "done" /\ kept # <<>>) =>
              /\ Len(result) = 1
              /\ Len(result[1].geometries) = 2
              /\ result[1].geometries[1].type = "LineString"
              /\ result[1].geometries[1].coordinates = tuples
              /\ result[1].geometries[2].type = "Polygon"
              /\ result[1].geometries[2].coordinates.outer = tuples

\* a text of a token with an empty third component, a token with an
\* altitude and a token of two components, both calls made
C7_Witness ==
    /\ cpc = "done"
    /\ pc = "done"
    /\ Len(coords) = 3
    /\ coords[1][3] = None
    /\ coords[2][3] # None
    /\ coords[3][3] = None
    /\ Len(result[1].geometries[1].coordinates[1]) = 2
    /\ Len(result[1].geometries[1].coordinates[2]) = 3
    /\ Len(result[1].geometries[2].coordinates.outer[3]) = 2
    /\ LET kept == KeptTokens(text) IN
         /\ Len(kept[1]) = 3 /\ ~HasAltitude(kept[1])
         /\ Len(kept[3]) = 2

\* the Placemark elements of the document, in document order
Placemarks == ElementsNamed(Root, "Placemark")

\* the geometries the element el itself yields (none, or one)
ElementGeoms(el) ==
    CASE LocalName(el.tag) = "Point" -> PointGeoms(el)
      [] LocalName(el.tag) = "LineString" -> LineStringGeoms(el)
      [] LocalName(el.tag) = "Polygon" -> PolygonGeoms(el)
      [] OTHER -> <<>>

GeometryNames == {"Point", "LineString", "Polygon"}

\* the geometries of the Point, LineString and Polygon elements of the
\* subtree of pm, in the document order of the elements
DocumentOrderGeoms(pm) ==
    LET qs == InOrder({ q \in Paths(pm) :
                          LocalName(At(pm, q).tag) \in GeometryNames })
    IN  Concat([i \in 1..Len(qs) |-> ElementGeoms(At(pm, qs[i]))])

OfType(geoms, type) == SelectSeq(geoms, LAMBDA g : g.type = type)

KindRank(type) ==
    CASE type = "Point" -> 1 [] type = "LineString" -> 2 [] type = "Polygon" -> 3

-----------------------------------------------------------------------------
(* C2, as claimed: the geometries of a record are in the depth-first       *)
(* document order of the Point, LineString and Polygon elements of the     *)
(* placemark, for any mix of kinds.                                        *)
C2_DocumentOrder ==
    pc = "done" =>
        \A i \in 1..Len(result) :
            result[i].geometries = DocumentOrderGeoms(Placemarks[i])

(* C2, amended: the geometries of a record are grouped by kind, the Points *)
(* first, then the LineStrings, then the Polygons, and the geometries of   *)
(* one kind are in the document order of their elements.                   *)
C2_KindThenDocumentOrder ==
    pc = "done" =>
        \A i \in 1..Len(result) :
            LET g == result[i].geometries
                d == DocumentOrderGeoms(Placemarks[i])
            IN  /\ \A j \in 1..Len(g) : \A k \in j..Len(g) :
                      KindRank(g[j].type) <= KindRank(g[k].type)
                /\ \A type \in GeometryNames :
                      OfType(g, type) = OfType(d, type)

\* a record of a placemark in which a polygon comes before a line, and the
\* line before a point, each with a geometry
C2_Witness ==
    /\ pc = "done"
    /\ Len(result) = 1
    /\ LET d == DocumentOrderGeoms(Placemarks[1]) IN
         /\ Len(d) = 3
         /\ d[1].type = "Polygon" /\ d[2].type = "LineString" /\ d[3].type = "Point"
         /\ Len(result[1].geometries) = 3

-----------------------------------------------------------------------------
(* Elements and their coordinates as the claims speak of them              *)

\* the first of el and its descendants named name, None when there is none
FirstNamed(el, name) ==
    LET qs == InOrder(Named(el, name)) IN
    IF qs = <<>> THEN None ELSE Some(At(el, qs[1]))

\* the text of the first coordinates descendant of el, None without one
CoordinatesText(el) ==
    LET c == FirstNamed(el, "coordinates") IN
    IF c = None THEN None ELSE c[1].text

\* the coordinates of el as they stand in a geometry
TuplesOf(el) ==
    LET kept == KeptTokens(CoordinatesText(el)) IN
    [i \in 1..Len(kept) |-> TupleOf(kept[i])]

\* the coordinates of the first LinearRing of an optional element
FirstRingTuples(b) ==
    LET lr == IF b = None THEN None ELSE FirstNamed(b[1], "LinearRing") IN
    IF lr = None THEN <<>> ELSE TuplesOf(lr[1])

NonEmpty(seqs) == SelectSeq(seqs, LAMBDA x : x # <<>>)

\* the outer boundary found through the first outerBoundaryIs of a polygon
OuterThroughBoundary(poly) == FirstRingTuples(FirstNamed(poly, "outerBoundaryIs"))

\* the outer boundary of the fallback: the first LinearRing of the polygon
OuterThroughFallback(poly) == FirstRingTuples(Some(poly))

\* the outer boundary the polygon is emitted with, empty when it is dropped
ResolvedOuter(poly) ==
    IF OuterThroughBoundary(poly) # <<>> THEN OuterThroughBoundary(poly)
    ELSE OuterThroughFallback(poly)

\* the Polygon elements of a placemark that have an outer boundary
ResolvedPolygons(pm) ==
    SelectSeq(ElementsNamed(pm, "Polygon"), LAMBDA e : ResolvedOuter(e) # <<>>)

\* the number of elements of pm named name with a coordinate
Resolvable(pm, name) ==
    Cardinality({ q \in Named(pm, name) : TuplesOf(At(pm, q)) # <<>> })

-----------------------------------------------------------------------------
(* C3: every emitted geometry has non-empty coordinates: a Point has one   *)
(* coordinate, a LineString at least one, a Polygon a non-empty outer      *)
(* boundary and non-empty holes; a Point or LineString element whose       *)
(* coordinates text is missing, empty or all malformed yields no geometry, *)
(* and a Polygon without a resolved outer boundary yields none even when   *)
(* holes were found.                                                       *)
C3_NonEmptyGeometries ==
    pc = "done" =>
        \A i \in 1..Len(result) :
            LET g == result[i].geometries
                pm == Placemarks[i]
            IN  /\ \A k \in 1..Len(g) :
                      CASE g[k].type = "Point" ->
                               /\ Len(g[k].coordinates) \in {2, 3}
                               /\ \A j \in 1..Len(g[k].coordinates) :
                                     DOMAIN g[k].coordinates[j] = {"m", "e"}
                        [] g[k].type = "LineString" ->
                               Len(g[k].coordinates) >= 1
                        [] g[k].type = "Polygon" ->
                               /\ Len(g[k].coordinates.outer) >= 1
                               /\ \A h \in 1..Len(g[k].coordinates.holes) :
                                     Len(g[k].coordinates.holes[h]) >= 1
                /\ Len(OfType(g, "Point")) = Resolvable(pm, "Point")
                /\ Len(OfType(g, "LineString")) = Resolvable(pm, "LineString")
                /\ Len(OfType(g, "Polygon")) = Len(ResolvedPolygons(pm))

\* a polygon with a hole found through innerBoundaryIs and no outer
\* boundary, and no geometry for it
C3_Witness ==
    /\ pc = "done"
    /\ Len(result) = 1
    /\ result[1].geometries = <<>>
    /\ \E q \in Named(Root, "Polygon") :
          NonEmpty([k \in 1..Len(ElementsNamed(At(Root, q), "innerBoundaryIs")) |->
                      FirstRingTuples(Some(ElementsNamed(At(Root, q), "innerBoundaryIs")[k]))])
              # <<>>

\* the holes found through the innerBoundaryIs elements of a polygon
HolesThroughBoundaries(poly) ==
    LET inner == ElementsNamed(poly, "innerBoundaryIs") IN
    NonEmpty([k \in 1..Len(inner) |-> FirstRingTuples(Some(inner[k]))])

(* C4: a Polygon whose (first) outerBoundaryIs has a (first) LinearRing    *)
(* with a coordinate is emitted with that ring as its outer boundary, and  *)
(* its holes are the non-empty first-LinearRing coordinates of its         *)
(* innerBoundaryIs descendants, one for each, in document order; the       *)
(* LinearRing fallback adds nothing, and without innerBoundaryIs there is  *)
(* no hole.                                                                *)
C4_ExplicitBoundaries ==
    pc = "done" =>
        \A i \in 1..Len(result) :
            LET pg == OfType(result[i].geometries, "Polygon")
                polys == ResolvedPolygons(Placemarks[i])
            IN  /\ Len(pg) = Len(polys)
                /\ \A k \in 1..Len(polys) :
                      OuterThroughBoundary(polys[k]) # <<>> =>
                          pg[k].coordinates =
                              [outer |-> OuterThroughBoundary(polys[k]),
                               holes |-> HolesThroughBoundaries(polys[k])]

\* a polygon with an outer boundary and one hole, both through boundary
\* elements, whose second LinearRing the fallback would make a second hole
C4_Witness ==
    /\ pc = "done"
    /\ Len(result) = 1
    /\ Len(result[1].geometries) = 1
    /\ result[1].geometries[1].type = "Polygon"
    /\ Len(result[1].geometries[1].coordinates.holes) = 1
    /\ result[1].geometries[1].coordinates.holes[1]
           # result[1].geometries[1].coordinates.outer
    /\ \E q \in Named(Root, "Polygon") :
          /\ OuterThroughBoundary(At(Root, q)) # <<>>
          /\ Cardinality(Named(At(Root, q), "LinearRing")) = 2

\* the holes of the fallback: the LinearRings of the polygon after the first
HolesThroughFallback(poly) ==
    LET lrs == ElementsNamed(poly, "LinearRing") IN
    NonEmpty([k \in 1..(Len(lrs) - 1) |-> TuplesOf(lrs[k + 1])])

(* C5: a Polygon with no outer boundary through outerBoundaryIs has its    *)
(* first LinearRing as outer boundary and exactly its later LinearRings    *)
(* with a coordinate as holes, in document order, so that no LinearRing    *)
(* counts twice, also when there are innerBoundaryIs elements.             *)
C5_FallbackRingsOnce ==
    pc = "done" =>
        \A i \in 1..Len(result) :
            LET pg == OfType(result[i].geometries, "Polygon")
                polys == ResolvedPolygons(Placemarks[i])
            IN  /\ Len(pg) = Len(polys)
                /\ \A k \in 1..Len(polys) :
                      OuterThroughBoundary(polys[k]) = <<>> =>
                          pg[k].coordinates =
                              [outer |-> OuterThroughFallback(polys[k]),
                               holes |-> HolesThroughFallback(polys[k])]

(* C8: a Point element whose first coordinates descendant has a coordinate *)
(* yields exactly one Point geometry, with the first coordinate only.      *)
C8_PointFirstCoordinate ==
    pc = "done" =>
        \A i \in 1..Len(result) :
            LET points == SelectSeq(ElementsNamed(Placemarks[i], "Point"),
                                    LAMBDA e : TuplesOf(e) # <<>>)
            IN  OfType(result[i].geometries, "Point") =
                    [k \in 1..Len(points) |->
                        [type |-> "Point", coordinates |-> TuplesOf(points[k])[1]]]

\* a Point over two coordinates, emitted with the first
C8_Witness ==
    /\ pc = "done"
    /\ Len(result) = 1
    /\ \E q \in Named(Root, "Point") : Len(TuplesOf(At(Root, q))) = 2
    /\ Len(OfType(result[1].geometries, "Point")) = 1

\* the name or description of a placemark: the trimmed text of the first
\* element of that name when it is not empty
FieldOf(pm, name) ==
    LET e == FirstNamed(pm, name) IN
    IF e # None /\ e[1].text # None /\ Strip(e[1].text[1]) # <<>>
    THEN Some(Strip(e[1].text[1]))
    ELSE None

(* C9: the name (description) of a record is the trimmed text of the first *)
(* name (description) descendant of the placemark when that text is not    *)
(* empty after trimming, and None, never the empty string, when the        *)
(* element is missing, has no text or has whitespace only.                 *)
C9_FieldsTrimmedOrAbsent ==
    pc = "done" =>
        \A i \in 1..Len(result) :
            /\ result[i].name = FieldOf(Placemarks[i], "name")
            /\ result[i].description = FieldOf(Placemarks[i], "description")

OtherNs == "urn:example:other"

\* every element of the tree put in the namespace uri
RECURSIVE InNamespace(_, _)
InNamespace(el, uri) ==
    El(<<"{", uri, "}", el.tag[Len(el.tag)]>>, el.text,
       [i \in 1..Len(el.children) |-> InNamespace(el.children[i], uri)])

\* the tree with every qualified name replaced by its local name
RECURSIVE Unqualified(_)
Unqualified(el) ==
    El(<<LocalName(el.tag)>>, el.text,
       [i \in 1..Len(el.children) |-> Unqualified(el.children[i])])

\* the tree with the elements whose name is only the lower case of the name
\* of another element renamed to a name of no meaning
RECURSIVE CaseVariantsRenamed(_)
CaseVariantsRenamed(el) ==
    El(IF LocalName(el.tag) \in {"placemark", "point"}
       THEN SubSeq(el.tag, 1, Len(el.tag) - 1) \o <<"Other">>
       ELSE el.tag,
       el.text,
       [i \in 1..Len(el.children) |-> CaseVariantsRenamed(el.children[i])])

(* C10: elements are matched by their local name, compared exactly: the    *)
(* records are the same when every element is taken out of its namespace   *)
(* or put in another one, and an element whose local name differs from     *)
(* Placemark or Point in letter case only counts as any unknown element.   *)
C10_LocalNameOnly ==
    pc = "done" =>
        \A root \in { Unqualified(Root), InNamespace(Root, OtherNs),
                      CaseVariantsRenamed(Root) } \ {Root} :
            result = extract_placemarks(Document(root)).value

\* the one record of a placemark in a namespace, over a placemark and a
\* point in lower case, the point with a coordinate, and a name in a namespace
C10_Witness ==
    /\ pc = "done"
    /\ Len(result) = 1
    /\ Root.tag = Q("Placemark")
    /\ \E q \in Paths(Root) : At(Root, q).tag = <<"placemark">>
    /\ \E q \in Paths(Root) :
          At(Root, q).tag = <<"point">> /\ TuplesOf(At(Root, q)) # <<>>
    /\ result[1].name = Some(<<"B">>)
    /\ result[1].geometries = <<>>

-----------------------------------------------------------------------------
(* C11: every Point, LineString and Polygon element of the subtree of a    *)
(* placemark, at any depth, that has resolvable coordinates yields exactly *)
(* one geometry of the record: the number of geometries of the record is   *)
(* the number of such elements.                                            *)
C11_OneGeometryPerElement ==
    pc = "done" =>
        \A i \in 1..Len(result) :
            LET pm == Placemarks[i] IN
            Len(result[i].geometries) =
                Resolvable(pm, "Point") + Resolvable(pm, "LineString")
                + Len(ResolvedPolygons(pm))

\* the one geometry of a placemark, of an element in a MultiGeometry in a
\* MultiGeometry
C11_Witness ==
    /\ pc = "done"
    /\ Len(result) = 1
    /\ Len(result[1].geometries) = 1
    /\ \E q \in Paths(Root) :
          /\ Len(q) = 3
          /\ At(Root, SubSeq(q, 1, 1)).tag = <<"MultiGeometry">>
          /\ At(Root, SubSeq(q, 1, 2)).tag = <<"MultiGeometry">>
          /\ LocalName(At(Root, q).tag) \in GeometryNames
          /\ ElementGeoms(At(Root, q)) # <<>>

-----------------------------------------------------------------------------
(* C12: once the XML text has parsed, extract_placemarks does not fail:    *)
(* it returns one record for every Placemark element, whatever is          *)
(* malformed or missing in it or in the others, and the record of a        *)
(* placemark is the one it has in a document of its own.                   *)
C12_AnomaliesAbsorbed ==
    (kml_text.wellformed /\ pc # "ready") =>
        /\ pc = "done"
        /\ exc = None
        /\ Len(result) = Len(Placemarks)
        /\ \A i \in 1..Len(result) :
              result[i] = extract_placemarks(Document(Placemarks[i])).value[1]

\* two placemarks side by side, the first with malformed coordinates, no
\* ring and no name and so without a geometry, the second with a geometry
C12_Witness ==
    /\ pc = "done"
    /\ Len(result) = 2
    /\ Root.tag = <<"Folder">>
    /\ MalformedCoordinates(Root.children[1]) # <<>>
    /\ Named(Root.children[1], "Polygon") # {}
    /\ result[1] = [name |-> None, description |-> None, geometries |-> <<>>]
    /\ result[2].geometries # <<>>

(* C13: when the XML text is malformed, extract_placemarks raises the      *)
(* parse error and returns no record, not even for the placemarks before   *)
(* the malformed part.                                                     *)
C13_MalformedRaises ==
    (~kml_text.wellformed /\ pc # "ready") =>
        /\ pc = "raised"
        /\ exc = Some("ParseError")
        /\ result = <<>>

\* a malformed text with two placemarks before the malformed part
C13_Witness ==
    /\ pc = "raised"
    /\ ~kml_text.wellformed
    /\ Cardinality(Named(Root, "Placemark")) = 2

-----------------------------------------------------------------------------
(* The readers as the claims speak of them                                 *)

\* the name s ends in suffix, written in lower case, in any letter case
EndsInAnyCase(s, suffix) ==
    /\ Len(s) >= Len(suffix)
    /\ \A i \in 1..Len(suffix) :
          LET c == s[Len(s) - Len(suffix) + i] IN
          \/ c = suffix[i]
          \/ \E k \in 1..26 : LowerCase[k] = suffix[i] /\ UpperCase[k] = c

IsArchiveName == EndsInAnyCase(path, DotKmz)

\* the positions of the entries of an archive whose name ends in .kml
DocumentEntries(f) ==
    { i \in 1..Len(f.entries) : EndsInAnyCase(f.entries[i].name, DotKml) }

\* the positions of the bytes that are in no valid sequence
InvalidAt(b) ==
    { i \in 1..Len(b) :
        \/ b[i] \in InvalidBytes
        \/ b[i] \in ContinuationBytes /\ (i = 1 \/ b[i - 1] \notin LeadBytes)
        \/ b[i] \in LeadBytes /\ (i = Len(b) \/ b[i + 1] \notin ContinuationBytes) }

Replacements(t) == { j \in 1..Len(t) : t[j] = "U+FFFD" }

\* the outcome of the read_kml_from_path call of main, once made
ReadDone == kml_read # None
ReadOutcome == kml_read[1]

\* the outcome of the reading of process_kml, once made
ProcessDone == ppc = "done"
ProcessOutcome == processed[1].content

(* C14: under a name that ends in .kmz in any letter case the content is   *)
(* opened as an archive and the text returned is the decoded first entry   *)
(* whose name ends in .kml in any letter case; without such an entry the   *)
(* read fails with an error, it returns no text and no empty result.       *)
C14_FirstDocumentOrError ==
    (IsArchiveName /\ file.kind = "zip") =>
        LET docs == DocumentEntries(file)
            first == file.entries[Least(docs)].data
        IN  /\ ReadDone =>
                  IF docs = {} THEN ReadOutcome = Raise("ValueError")
                  ELSE ReadOutcome = Return(Decode(first, "replace").value)
            /\ ProcessDone =>
                  IF docs = {} THEN ProcessOutcome.raised
                  ELSE ProcessOutcome = Return(Decode(first, "replace").value)

(* C15: reading does not fail for invalid UTF-8: for an archive entry and  *)
(* for raw content the text is returned, with one replacement character    *)
(* for every invalid byte sequence.                                        *)
C15_InvalidBytesReplaced ==
    LET docs == DocumentEntries(file)
        decoded == IF IsArchiveName THEN file.entries[Least(docs)].data
                   ELSE file.data
    IN  (\/ ~IsArchiveName /\ file.kind = "bytes"
         \/ IsArchiveName /\ file.kind = "zip" /\ docs # {}) =>
            /\ ReadDone =>
                  /\ ~ReadOutcome.raised
                  /\ Cardinality(Replacements(ReadOutcome.value))
                         = Cardinality(InvalidAt(decoded))
            /\ ProcessDone =>
                  /\ ~ProcessOutcome.raised
                  /\ Cardinality(Replacements(ProcessOutcome.value))
                         = Cardinality(InvalidAt(decoded))

\* the condition a caller catches for each kind of failure
Handlers ==
    [io |-> {"OSError", "BadZipFile"},
     empty |-> {"ValueError"},
     parse |-> {"ParseError"}]

\* the kinds whose handlers catch an exception of the class
CaughtAs(class) ==
    { k \in DOMAIN Handlers : \E h \in Handlers[k] : IsSubclass(class, h) }

\* the file is missing, or is given as an archive and is none
IoFailure == file = Missing \/ (IsArchiveName /\ file.kind = "bytes")

EmptyArchive ==
    IsArchiveName /\ file.kind = "zip" /\ DocumentEntries(file) = {}

\* the text was read and is not well-formed XML
ParseFailure ==
    ReadDone /\ ~ReadOutcome.raised /\ ~FromString(ReadOutcome.value).wellformed

(* C16: an I/O error (missing file, unreadable archive), an empty archive  *)
(* and an XML parse error reach the caller, main, as exceptions of three   *)
(* conditions of which none is, or is a subclass of, another: each is      *)
(* caught by the handler of its kind and by no handler of another kind,    *)
(* and none is swallowed (the call raises, main does not return 0).        *)
C16_DistinctFailureKinds ==
    /\ \A k1 \in DOMAIN Handlers : \A k2 \in DOMAIN Handlers \ {k1} :
          \A h1 \in Handlers[k1] : \A h2 \in Handlers[k2] : ~IsSubclass(h1, h2)
    /\ (IoFailure /\ ReadDone) =>
          /\ ReadOutcome.raised
          /\ CaughtAs(ReadOutcome.error[1]) = {"io"}
          /\ exit_code = Some(2)
    /\ (EmptyArchive /\ ReadDone) =>
          /\ ReadOutcome.raised
          /\ CaughtAs(ReadOutcome.error[1]) = {"empty"}
          /\ exit_code = Some(2)
    /\ (ParseFailure /\ mpc = "return") =>
          /\ pc = "raised"
          /\ CaughtAs(exc[1]) = {"parse"}
          /\ exit_code = Some(3)

\* an archive with an entry and no document, read by main
C16_Witness ==
    /\ EmptyArchive
    /\ file.entries # <<>>
    /\ mpc = "return"
    /\ ReadOutcome = Raise("ValueError")
    /\ exit_code = Some(2)

(* C17: an archive whose only entry, doc.kml, holds the bytes B is read as *)
(* the raw document of the bytes B is: the same text, or the same failure. *)
C17_ArchiveAsRaw ==
    (/\ IsArchiveName
     /\ file.kind = "zip"
     /\ NameList(file) = << <<"d", "o", "c", ".", "k", "m", "l">> >>) =>
        LET raw == BytesFile(file.entries[1].data)
            name == <<"a", ".", "k", "m", "l">>
        IN  /\ ReadDone => ReadOutcome = read_kml_from_path(name, raw)
            /\ ProcessDone => ProcessOutcome = process_kml_content(name, raw)

\* what invocation k returned or raised, once it has
Finished(k) == calls[k].pc \in {"done", "raised"}
OutcomeOf(k) ==
    [raised |-> calls[k].pc = "raised",
     error |-> calls[k].exc,
     value |-> calls[k].result]

\* the step of a frame when no other invocation exists
Alone(fr) ==
    CASE fr.pc = "parse" -> ParseText(fr)
      [] fr.pc = "loop" /\ fr.i <= Len(fr.placemark_elements) ->
             AppendRecord(<<fr>>, 1)[1]
      [] fr.pc = "loop" /\ fr.i > Len(fr.placemark_elements) ->
             [fr EXCEPT !.pc = "done"]
      [] OTHER -> fr

(* C18: extract_placemarks is a function of its text alone: whatever the   *)
(* interleaving, an invocation ends with the outcome of a call on its own  *)
(* text, two invocations on the same text end with equal outcomes, and a   *)
(* step of one invocation changes the locals of that invocation only, to   *)
(* what they would become if no other invocation existed.                  *)
C18_PureFunction ==
    /\ [](\A k \in Invocations :
             /\ Finished(k) => OutcomeOf(k) = extract_placemarks(calls[k].kml_text)
             /\ \A j \in Invocations :
                   (Finished(j) /\ Finished(k)
                    /\ calls[j].kml_text = calls[k].kml_text)
                       => OutcomeOf(j) = OutcomeOf(k))
    /\ [][\A k \in Invocations :
             calls'[k] # calls[k] =>
                 /\ calls'[k] = Alone(calls[k])
                 /\ \A j \in Invocations \ {k} : calls'[j] = calls[j]]_vars

\* both invocations have returned the records of the same text
C18_Witness ==
    /\ calls # <<>>
    /\ calls[1].pc = "done"
    /\ calls[2].pc = "done"
    /\ calls[1].kml_text = calls[2].kml_text
    /\ Len(calls[1].result) = MaxCallPlacemarks
    /\ calls[1].result = calls[2].result

\* the names of the features stored in the data file
StoredNames(f) ==
    [i \in 1..Len(f.features) |-> Get(f.features[i].properties, "name")]

IsPrefixOf(a, b) ==
    /\ Len(a) <= Len(b)
    /\ \A i \in 1..Len(a) : a[i] = b[i]

(* C19: from a missing or empty data file, after any save calls with any   *)
(* lists of plantations no two stored features have the same name, and no  *)
(* call removes or changes a feature stored before it.                     *)
C19_StoredNamesUnique ==
    /\ [](\A i \in 1..Len(data_file.features) :
             \A j \in 1..Len(data_file.features) :
                StoredNames(data_file)[i] = StoredNames(data_file)[j] => i = j)
    /\ [][IsPrefixOf(data_file.features, data_file'.features)]_vars

\* the step is an "Add to Database" that reported the name as added
ReportedAdded(name) ==
    /\ messages' # <<>>
    /\ messages'[Len(messages')] = Success("added to database", name)

(* C20: an "Add to Database" that removes a plantation from the session    *)
(* and reports it as added leaves a feature with the submitted name and    *)
(* the geometry of that plantation in the data file; a plantation whose    *)
(* save is skipped (name already stored, or no geometry) stays in the      *)
(* session.                                                                *)
C20_AddedMeansStored ==
    [][\A name \in PlantationNames :
          ReportedAdded(name) =>
              \E i \in 1..Len(session_plantations) :
                 LET q == session_plantations[i] IN
                 /\ session_plantations' = Pop(session_plantations, i)
                 /\ Get(q, "geometry") # None
                 /\ \E k \in 1..Len(data_file'.features) :
                       /\ Get(data_file'.features[k].properties, "name") = name
                       /\ data_file'.features[k].geometry = Get(q, "geometry")[1]
                 /\ name \notin { StoredNames(data_file)[k] :
                                    k \in 1..Len(data_file.features) }]_vars

\* the list b is the list a without its element at position i
WithoutOne(a, b, i) ==
    /\ Len(b) = Len(a) - 1
    /\ \A j \in 1..Len(b) : b[j] = IF j < i THEN a[j] ELSE a[j + 1]

\* the step is a "Delete from Session" of a plantation of that name
ReportedRemoved(name) ==
    messages' = <<Warning("removed from session", name)>>

\* the step is an "Add to Database" without a plantation type
ReportedNoType ==
    messages' = <<Warning("select a plantation type", None)>>

(* C21: "Delete from Session" removes the one reviewed plantation from the *)
(* session list, the others stay as they are and in their order, and the   *)
(* data file is untouched; "Add to Database" without a plantation type     *)
(* changes neither the session list nor the data file.                     *)
C21_ReviewFrame ==
    [][/\ \A name \in PlantationNames :
             ReportedRemoved(name) =>
                 /\ \E i \in 1..Len(session_plantations) :
                       /\ Get(session_plantations[i], "name") = name
                       /\ WithoutOne(session_plantations,
                                     session_plantations', i)
                 /\ data_file' = data_file
       /\ ReportedNoType =>
             /\ session_plantations' = session_plantations
             /\ data_file' = data_file]_vars

\* a plantation was deleted from a session of two plantations of different
\* names, with a feature in the data file
C21_Witness ==
    /\ messages # <<>>
    /\ messages[1].text = "removed from session"
    /\ Len(session_plantations) = 1
    /\ Get(session_plantations[1], "name") # messages[1].name
    /\ data_file.features # <<>>

====
